---- MODULE Spec2Model ----
(***************************************************************************)
(* Model of extract_pairs_orthofinder_qfo.py: extraction of orthologue     *)
(* pairs from OrthoFinder prediction spreadsheets into one flat file.      *)
(*                                                                         *)
(* Text is modelled as sequences of one-character strings, so that the     *)
(* splitting, substring and suffix tests of the script are computed on     *)
(* characters as the script computes them.                                 *)
(***************************************************************************)
EXTENDS Integers, Sequences, FiniteSets, TLC

(***************************************************************************)
(* Bounds.                                                                 *)
(***************************************************************************)
\* Number of times the script is invoked on the same inputs and output path.
MaxRuns == 2

(***************************************************************************)
(* String primitives of Python used by the script.                         *)
(***************************************************************************)
RECURSIVE SplitFrom(_, _, _, _, _)
SplitFrom(s, sep, i, cur, acc) ==
    IF i > Len(s) THEN Append(acc, cur)
    ELSE IF s[i] = sep THEN SplitFrom(s, sep, i + 1, <<>>, Append(acc, cur))
    ELSE SplitFrom(s, sep, i + 1, Append(cur, s[i]), acc)

\* str.split(sep) for a one-character separator: never returns an empty list.
Split(s, sep) == SplitFrom(s, sep, 1, <<>>, <<>>)

\* str.replace(ch, "") for a one-character ch.
Remove(s, ch) == SelectSeq(s, LAMBDA c : c # ch)

\* t in s
Contains(s, t) ==
    \E i \in 1..(Len(s) - Len(t) + 1) : SubSeq(s, i, i + Len(t) - 1) = t

\* s.endswith(t)
EndsWith(s, t) ==
    /\ Len(s) >= Len(t)
    /\ SubSeq(s, Len(s) - Len(t) + 1, Len(s)) = t

RECURSIVE LinesFrom(_, _, _, _)
LinesFrom(s, i, cur, acc) ==
    IF i > Len(s) THEN (IF cur = <<>> THEN acc ELSE Append(acc, cur))
    ELSE IF s[i] = "\n" THEN LinesFrom(s, i + 1, <<>>, Append(acc, Append(cur, "\n")))
    ELSE LinesFrom(s, i + 1, Append(cur, s[i]), acc)

\* Iterating a text file handle: the lines, each keeping its newline.
ReadLines(s) == LinesFrom(s, 1, <<>>, <<>>)

RECURSIVE Concat(_)
Concat(ss) == IF ss = <<>> THEN <<>> ELSE Head(ss) \o Concat(Tail(ss))

(***************************************************************************)
(* Literals of the script.                                                 *)
(***************************************************************************)
Marker ==
    <<"O", "r", "t", "h", "o", "g", "r", "o", "u", "p">>

TsvExt ==
    <<".", "t", "s", "v">>

(***************************************************************************)
(* Rows the input files are built from.                                    *)
(***************************************************************************)
HeaderRow ==
    <<"O", "r", "t", "h", "o", "g", "r", "o", "u", "p", "\t", "S", "1", "\t", "S", "2">>

ShortHeaderRow ==
    <<"O", "r", "t", "h", "o", "g", "r", "o", "u", "p", "\t", "S", "1">>

GoodRow21 ==
    <<"O", "G", "1", "\t", "s", "p", "|", "P", "1", "|", "G", "1", ",", " ",
      "s", "p", "|", "P", "2", "|", "G", "2", "\t", "s", "p", "|", "Q", "1", "|", "G", "3">>

GoodRow22 ==
    <<"O", "G", "2", "\t", "t", "r", "|", "P", "3", "|", "G", ",", "t", "r", "|", "P", "4", "|", "G",
      "\t", "t", "r", "|", "Q", "2", "|", "G", ",", " ", "t", "r", "|", "Q", "3", "|", "G", "|", "x">>

GoodRow11 ==
    <<"O", "G", "3", "\t", "s", "p", "|", "P", "5", "|", "G", "\t", "s", "p", "|", "Q", "4", "|", "G",
      "\t", "S", "3">>

TwoSegRow ==
    <<"O", "G", "4", "\t", "s", "p", "|", "A", "1", "\t", "s", "p", "|", "B", "1">>

ShortRow ==
    <<"O", "G", "5", "\t", "s", "p", "|", "P", "6", "|", "G">>

MarkerDataRow ==
    <<"O", "G", "6", "\t", "s", "p", "|", "P", "7", "|", "G", "\t",
      "s", "p", "|", "O", "r", "t", "h", "o", "g", "r", "o", "u", "p", "|", "G">>

BadRefRow ==
    <<"O", "G", "7", "\t", "P", "8", "\t", "s", "p", "|", "Q", "5", "|", "G">>

BadTgtRow ==
    <<"O", "G", "8", "\t", "s", "p", "|", "P", "9", "|", "G", "\t", "s", "p", "|", "Q", "6", "|", "G",
      ",", "Q", "7">>

EmptyRefRow ==
    <<"O", "G", "9", "\t", "\t", "s", "p", "|", "Q", "8", "|", "G">>

NL == <<"\n">>

\* Header, then one row of two references and one target.
DataExample == HeaderRow \o NL \o GoodRow21 \o NL
\* A short row, then a 2x2 row; the last line has no newline.
DataMixed == ShortRow \o NL \o GoodRow22
\* Header-marked rows (one short, one a data row), an empty line, a two-segment row.
DataQuirks == ShortHeaderRow \o NL \o MarkerDataRow \o NL \o NL \o TwoSegRow \o NL
\* A good row, a row whose second target token has one segment, a good row.
DataBadTgt == GoodRow11 \o NL \o BadTgtRow \o NL \o GoodRow21 \o NL
\* A row whose reference token has one segment.
DataBadRef == GoodRow21 \o NL \o BadRefRow \o NL
\* A row whose reference field is empty.
DataEmptyRef == EmptyRefRow \o NL \o GoodRow11 \o NL

Readable(d) == [openable |-> TRUE, data |-> d]
Unopenable == [openable |-> FALSE, data |-> DataExample]

\* Line already in the output file before the first run.
OldLine ==
    <<"X", "0", "\t", "Y", "0", "\n">>

(***************************************************************************)
(* The predictions tree.  Root is the path given on the command line.      *)
(***************************************************************************)
Root == "R"

Tree ==
    [R  |-> [parent |-> "",   kind |-> "dir",  name |-> <<"R">>],
     d1 |-> [parent |-> "R",  kind |-> "dir",  name |-> <<"d", "1">>],
     r  |-> [parent |-> "R",  kind |-> "file", name |-> <<"r", ".", "t", "s", "v">>],
     d2 |-> [parent |-> "R",  kind |-> "dir",  name |-> <<"d", "2">>],
     d3 |-> [parent |-> "R",  kind |-> "dir",  name |-> <<"d", "3">>],
     a  |-> [parent |-> "d1", kind |-> "file", name |-> <<"a", ".", "t", "s", "v">>],
     n  |-> [parent |-> "d1", kind |-> "file", name |-> <<"n", ".", "t", "x", "t">>],
     x  |-> [parent |-> "d1", kind |-> "dir",  name |-> <<"x", ".", "t", "s", "v">>],
     b  |-> [parent |-> "d1", kind |-> "file", name |-> <<"b", ".", "t", "s", "v">>],
     s  |-> [parent |-> "d1", kind |-> "dir",  name |-> <<"s", "u", "b">>],
     m  |-> [parent |-> "x",  kind |-> "file", name |-> <<"m", ".", "t", "s", "v">>],
     k  |-> [parent |-> "s",  kind |-> "file", name |-> <<"k", ".", "t", "s", "v">>],
     c  |-> [parent |-> "d2", kind |-> "file", name |-> <<"c", ".", "t", "s", "v">>]]

Nodes == DOMAIN Tree
FileNodes == {n \in Nodes : Tree[n].kind = "file"}

\* The directory entries in ascending order of the host's directory listing.
NodeSeq == <<"R", "d1", "r", "d2", "d3", "a", "n", "x", "b", "s", "m", "k", "c">>

\* The files whose content and readability vary between the checked inputs.
ContentsOf(n) ==
    CASE n = "a" ->
            {Readable(DataExample), Readable(DataMixed), Readable(DataQuirks),
             Readable(DataBadTgt), Readable(DataBadRef), Readable(DataEmptyRef), Unopenable}
      [] n = "b" ->
            {Readable(DataExample), Readable(DataMixed), Readable(DataBadRef), Unopenable}
      [] n = "c" ->
            {Readable(DataExample), Readable(DataQuirks), Readable(DataBadTgt), Unopenable}
      [] OTHER -> {Readable(DataExample)}

RECURSIVE PathOf(_)
\* DirEntry.path: the scanned directory's path joined with the entry's name.
PathOf(n) ==
    IF n = Root THEN Tree[n].name
    ELSE PathOf(Tree[n].parent) \o <<"/">> \o Tree[n].name

VARIABLES
    rootKind,      \* what the predictions path is: "dir", "file" or "missing"
    content,       \* file node -> [openable, data]
    scanOrder,     \* order in which os.scandir yields entries: "asc" or "desc"
    out,           \* characters of the output file
    outExists,     \* whether the output file exists
    pc,            \* position of the running script
    error,         \* exception that ended the run, "none" otherwise
    predictions_subdirs, dirIdx,   \* line 96 and the loop of line 98
    files, fileIdx,                \* line 99 and the loop of line 100
    inHandle,      \* input file handle of extract_orthologous_pairs
    lines, lineIdx,                \* lines of the open input file, next one to read
    orthologues,   \* list built by extract_orthologous_pairs
    outHandle,     \* output file handle of write_orthologous_pairs
    pairIdx,       \* next pair to write
    warnings,      \* warnings issued so far in this run
    run,           \* number of the current invocation of the script
    runStart,      \* content of the output file when the current run started
    history        \* per finished run: how it ended and what it left in the file

vars ==
    <<rootKind, content, scanOrder, out, outExists, pc, error, predictions_subdirs,
      dirIdx, files, fileIdx, inHandle, lines, lineIdx, orthologues, outHandle,
      pairIdx, warnings, run, runStart, history>>

fsVars == <<rootKind, content, scanOrder>>

(***************************************************************************)
(* Directory scanning (os.scandir).                                        *)
(***************************************************************************)
Reverse(q) == [i \in 1..Len(q) |-> q[Len(q) + 1 - i]]

\* os.scandir(d): the entries of d, in the order the host yields them.
ScanDir(d, order) ==
    LET asc == SelectSeq(NodeSeq, LAMBDA n : Tree[n].parent = d)
    IN  IF order = "asc" THEN asc ELSE Reverse(asc)

\* Line 96: [f.path for f in os.scandir(predictions) if f.is_dir()]
SubdirsOf(d, order) ==
    SelectSeq(ScanDir(d, order), LAMBDA n : Tree[n].kind = "dir")

\* Variant of TsvFilesOf without the test of the extension.
TsvFilesOfAnyName(d, order) ==
    SelectSeq(ScanDir(d, order), LAMBDA n : Tree[n].kind = "file")

\* Line 99: [f.path for f in os.scandir(dir) if f.is_file() and f.path.endswith(".tsv")]
TsvFilesOf(d, order) ==
    SelectSeq(ScanDir(d, order),
              LAMBDA n : Tree[n].kind = "file" /\ EndsWith(PathOf(n), TsvExt))

(***************************************************************************)
(* Row parsing of extract_orthologous_pairs.                               *)
(***************************************************************************)
\* Variant of IsHeader that looks for the marker at the start of the line only.
IsHeaderPrefix(line) ==
    Len(line) >= Len(Marker) /\ SubSeq(line, 1, Len(Marker)) = Marker

\* Line 50: "Orthogroup" in line
IsHeader(line) == Contains(line, Marker)

\* Line 54: line.replace("\n", "").split("\t")
Fields(line) == Split(Remove(line, "\n"), "\t")

\* Lines 55-56 raise IndexError when temp[1] or temp[2] does not exist.
IsMalformed(line) == Len(Fields(line)) < 3

\* Line 55: temp[1].replace(" ", "").split(",")
ReferenceGenes(line) == Split(Remove(Fields(line)[2], " "), ",")

\* Line 56: temp[2].replace(" ", "").split(",")
TargetGenes(line) == Split(Remove(Fields(line)[3], " "), ",")

RECURSIVE TargetLoop(_, _, _, _)
\* Lines 63-64: the inner loop; target.split("|")[1] raises IndexError on a
\* token of one segment, leaving the pairs appended so far.
TargetLoop(reference_id, targets, j, acc) ==
    IF j > Len(targets) THEN [pairs |-> acc, raised |-> FALSE]
    ELSE LET segs == Split(targets[j], "|")
         IN  IF Len(segs) < 2 THEN [pairs |-> acc, raised |-> TRUE]
             ELSE TargetLoop(reference_id, targets, j + 1,
                             Append(acc, <<reference_id, segs[2]>>))

RECURSIVE ReferenceLoop(_, _, _, _)
\* Lines 61-64: the outer loop; reference.split("|")[1] raises IndexError on
\* a token of one segment.
ReferenceLoop(references, targets, i, acc) ==
    IF i > Len(references) THEN [pairs |-> acc, raised |-> FALSE]
    ELSE LET segs == Split(references[i], "|")
         IN  IF Len(segs) < 2 THEN [pairs |-> acc, raised |-> TRUE]
             ELSE LET inner == TargetLoop(segs[2], targets, 1, acc)
                  IN  IF inner.raised THEN inner
                      ELSE ReferenceLoop(references, targets, i + 1, inner.pairs)

\* Variant of RowLoop with the loops exchanged: targets outside, references inside.
RowLoopTargetMajor(line, acc) ==
    LET swapped == ReferenceLoop(TargetGenes(line), ReferenceGenes(line), 1, <<>>)
    IN  [pairs |-> acc \o [i \in 1..Len(swapped.pairs) |->
                              <<swapped.pairs[i][2], swapped.pairs[i][1]>>],
         raised |-> swapped.raised]

\* Lines 61-64 for one row: the list after the loops, and whether they raised.
RowLoop(line, acc) == ReferenceLoop(ReferenceGenes(line), TargetGenes(line), 1, acc)

\* Line 82: pair[0] + "\t" + pair[1] + "\n"
FormatPair(pair) == pair[1] \o <<"\t">> \o pair[2] \o <<"\n">>

(***************************************************************************)
(* Initial states: the inputs the script is run on.                        *)
(***************************************************************************)
Init ==
    /\ rootKind \in {"dir", "file", "missing"}
    /\ \E ca \in ContentsOf("a"), cb \in ContentsOf("b"), cc \in ContentsOf("c") :
          content = [n \in FileNodes |->
                        CASE n = "a" -> ca
                          [] n = "b" -> cb
                          [] n = "c" -> cc
                          [] OTHER -> Readable(DataExample)]
    /\ scanOrder \in {"asc", "desc"}
    /\ \/ outExists = FALSE /\ out = <<>>
       \/ outExists = TRUE /\ out = OldLine
    /\ pc = "start"
    /\ error = "none"
    /\ predictions_subdirs = <<>>
    /\ dirIdx = 1
    /\ files = <<>>
    /\ fileIdx = 1
    /\ inHandle = "closed"
    /\ lines = <<>>
    /\ lineIdx = 1
    /\ orthologues = <<>>
    /\ outHandle = "closed"
    /\ pairIdx = 1
    /\ warnings = <<>>
    /\ run = 1
    /\ runStart = out
    /\ history = <<>>

(***************************************************************************)
(* process_orthofinder_predictions                                         *)
(***************************************************************************)
\* Line 96 on a root that is a directory.
ScanRoot ==
    /\ pc = "start"
    /\ rootKind = "dir"
    /\ predictions_subdirs' = SubdirsOf(Root, scanOrder)
    /\ dirIdx' = 1
    /\ pc' = "dirs"
    /\ UNCHANGED <<fsVars, out, outExists, error, files, fileIdx, inHandle, lines,
                   lineIdx, orthologues, outHandle, pairIdx, warnings, run, runStart,
                   history>>

\* Variant of ScanRootFails that warns and returns instead of raising.
ScanRootFailsSkipped ==
    /\ pc = "start"
    /\ rootKind # "dir"
    /\ warnings' = Append(warnings, [kind |-> "open", file |-> Root, line |-> <<>>])
    /\ pc' = "done"
    /\ UNCHANGED <<fsVars, out, outExists, error, predictions_subdirs, dirIdx, files,
                   fileIdx, inHandle, lines, lineIdx, orthologues, outHandle, pairIdx,
                   run, runStart, history>>

\* Line 96 on a root that is missing or no directory: os.scandir raises and
\* nothing catches it.
ScanRootFails ==
    /\ pc = "start"
    /\ rootKind # "dir"
    /\ pc' = "raised"
    /\ error' = (IF rootKind = "missing" THEN "FileNotFoundError" ELSE "NotADirectoryError")
    /\ UNCHANGED <<fsVars, out, outExists, predictions_subdirs, dirIdx, files, fileIdx,
                   inHandle, lines, lineIdx, orthologues, outHandle, pairIdx, warnings,
                   run, runStart, history>>

\* Lines 98-99: the next subdirectory is scanned for its .tsv files.
ScanSubdir ==
    /\ pc = "dirs"
    /\ dirIdx <= Len(predictions_subdirs)
    /\ files' = TsvFilesOf(predictions_subdirs[dirIdx], scanOrder)
    /\ fileIdx' = 1
    /\ pc' = "files"
    /\ UNCHANGED <<fsVars, out, outExists, error, predictions_subdirs, dirIdx, inHandle,
                   lines, lineIdx, orthologues, outHandle, pairIdx, warnings, run,
                   runStart, history>>

\* Line 98: no subdirectory is left, the function returns.
Finish ==
    /\ pc = "dirs"
    /\ dirIdx > Len(predictions_subdirs)
    /\ pc' = "done"
    /\ UNCHANGED <<fsVars, out, outExists, error, predictions_subdirs, dirIdx, files,
                   fileIdx, inHandle, lines, lineIdx, orthologues, outHandle, pairIdx,
                   warnings, run, runStart, history>>

\* Line 100: no file is left in this subdirectory.
EndSubdir ==
    /\ pc = "files"
    /\ fileIdx > Len(files)
    /\ dirIdx' = dirIdx + 1
    /\ pc' = "dirs"
    /\ UNCHANGED <<fsVars, out, outExists, error, predictions_subdirs, files, fileIdx,
                   inHandle, lines, lineIdx, orthologues, outHandle, pairIdx, warnings,
                   run, runStart, history>>

(***************************************************************************)
(* extract_orthologous_pairs                                               *)
(***************************************************************************)
\* Variant of OpenInput in which the list is not emptied for each file.
OpenInputKeepsList ==
    /\ pc = "files"
    /\ fileIdx <= Len(files)
    /\ content[files[fileIdx]].openable
    /\ inHandle' = "open"
    /\ lines' = ReadLines(content[files[fileIdx]].data)
    /\ lineIdx' = 1
    /\ pc' = "read"
    /\ UNCHANGED <<fsVars, out, outExists, error, predictions_subdirs, dirIdx, files,
                   fileIdx, orthologues, outHandle, pairIdx, warnings, run, runStart,
                   history>>

\* Lines 101, 45-48: the next file is opened.
OpenInput ==
    /\ pc = "files"
    /\ fileIdx <= Len(files)
    /\ content[files[fileIdx]].openable
    /\ orthologues' = <<>>
    /\ inHandle' = "open"
    /\ lines' = ReadLines(content[files[fileIdx]].data)
    /\ lineIdx' = 1
    /\ pc' = "read"
    /\ UNCHANGED <<fsVars, out, outExists, error, predictions_subdirs, dirIdx, files,
                   fileIdx, outHandle, pairIdx, warnings, run, runStart, history>>

\* Variant of OpenInputFails in which the error of open is not caught.
OpenInputFailsRaises ==
    /\ pc = "files"
    /\ fileIdx <= Len(files)
    /\ ~content[files[fileIdx]].openable
    /\ orthologues' = <<>>
    /\ pc' = "raised"
    /\ error' = "OSError"
    /\ UNCHANGED <<fsVars, out, outExists, predictions_subdirs, dirIdx, files, fileIdx,
                   inHandle, lines, lineIdx, outHandle, pairIdx, warnings, run, runStart,
                   history>>

\* Lines 101, 45-48, 66-69: open raises EnvironmentError; warn, return [].
OpenInputFails ==
    /\ pc = "files"
    /\ fileIdx <= Len(files)
    /\ ~content[files[fileIdx]].openable
    /\ orthologues' = <<>>
    /\ warnings' = Append(warnings, [kind |-> "open", file |-> files[fileIdx], line |-> <<>>])
    /\ pc' = "extracted"
    /\ UNCHANGED <<fsVars, out, outExists, error, predictions_subdirs, dirIdx, files,
                   fileIdx, inHandle, lines, lineIdx, outHandle, pairIdx, run, runStart,
                   history>>

\* Lines 49-51: a line holding the marker is skipped.
SkipHeader ==
    /\ pc = "read"
    /\ lineIdx <= Len(lines)
    /\ IsHeader(lines[lineIdx])
    /\ lineIdx' = lineIdx + 1
    /\ UNCHANGED <<fsVars, out, outExists, pc, error, predictions_subdirs, dirIdx, files,
                   fileIdx, inHandle, lines, orthologues, outHandle, pairIdx, warnings,
                   run, runStart, history>>

\* Variant of WarnRow that leaves the loop (break) instead of going on.
WarnRowBreaks ==
    /\ pc = "read"
    /\ lineIdx <= Len(lines)
    /\ ~IsHeader(lines[lineIdx])
    /\ IsMalformed(lines[lineIdx])
    /\ warnings' = Append(warnings,
                          [kind |-> "row", file |-> files[fileIdx], line |-> lines[lineIdx]])
    /\ lineIdx' = Len(lines) + 1
    /\ UNCHANGED <<fsVars, out, outExists, pc, error, predictions_subdirs, dirIdx, files,
                   fileIdx, inHandle, lines, orthologues, outHandle, pairIdx, run,
                   runStart, history>>

\* Lines 53-59: IndexError on temp[1] or temp[2]; warn and go on.
WarnRow ==
    /\ pc = "read"
    /\ lineIdx <= Len(lines)
    /\ ~IsHeader(lines[lineIdx])
    /\ IsMalformed(lines[lineIdx])
    /\ warnings' = Append(warnings,
                          [kind |-> "row", file |-> files[fileIdx], line |-> lines[lineIdx]])
    /\ lineIdx' = lineIdx + 1
    /\ UNCHANGED <<fsVars, out, outExists, pc, error, predictions_subdirs, dirIdx, files,
                   fileIdx, inHandle, lines, orthologues, outHandle, pairIdx, run,
                   runStart, history>>

\* Lines 53-64: the row's pairs are appended.
EmitRow ==
    /\ pc = "read"
    /\ lineIdx <= Len(lines)
    /\ ~IsHeader(lines[lineIdx])
    /\ ~IsMalformed(lines[lineIdx])
    /\ ~RowLoop(lines[lineIdx], orthologues).raised
    /\ orthologues' = RowLoop(lines[lineIdx], orthologues).pairs
    /\ lineIdx' = lineIdx + 1
    /\ UNCHANGED <<fsVars, out, outExists, pc, error, predictions_subdirs, dirIdx, files,
                   fileIdx, inHandle, lines, outHandle, pairIdx, warnings, run, runStart,
                   history>>

\* Variant of RaiseRow in which the inner try covers the loops: warn and go on.
RaiseRowWarns ==
    /\ pc = "read"
    /\ lineIdx <= Len(lines)
    /\ ~IsHeader(lines[lineIdx])
    /\ ~IsMalformed(lines[lineIdx])
    /\ RowLoop(lines[lineIdx], orthologues).raised
    /\ warnings' = Append(warnings,
                          [kind |-> "row", file |-> files[fileIdx], line |-> lines[lineIdx]])
    /\ lineIdx' = lineIdx + 1
    /\ UNCHANGED <<fsVars, out, outExists, pc, error, predictions_subdirs, dirIdx, files,
                   fileIdx, inHandle, lines, orthologues, outHandle, pairIdx, run,
                   runStart, history>>

\* Lines 61-64: split("|")[1] raises IndexError outside the inner try; the
\* outer handler takes EnvironmentError only, the with block closes the file
\* and the error leaves process_orthofinder_predictions.
RaiseRow ==
    /\ pc = "read"
    /\ lineIdx <= Len(lines)
    /\ ~IsHeader(lines[lineIdx])
    /\ ~IsMalformed(lines[lineIdx])
    /\ RowLoop(lines[lineIdx], orthologues).raised
    /\ orthologues' = RowLoop(lines[lineIdx], orthologues).pairs
    /\ inHandle' = "closed"
    /\ pc' = "raised"
    /\ error' = "IndexError"
    /\ UNCHANGED <<fsVars, out, outExists, predictions_subdirs, dirIdx, files, fileIdx,
                   lines, lineIdx, outHandle, pairIdx, warnings, run, runStart, history>>

\* Lines 49, 69: end of file; the with block closes it and the list is returned.
EndOfFile ==
    /\ pc = "read"
    /\ lineIdx > Len(lines)
    /\ inHandle' = "closed"
    /\ pc' = "extracted"
    /\ UNCHANGED <<fsVars, out, outExists, error, predictions_subdirs, dirIdx, files,
                   fileIdx, lines, lineIdx, orthologues, outHandle, pairIdx, warnings,
                   run, runStart, history>>

(***************************************************************************)
(* write_orthologous_pairs                                                 *)
(***************************************************************************)
\* Variant of OpenOutput that opens the file for writing ("w"), emptying it.
OpenOutputTruncates ==
    /\ pc = "extracted"
    /\ outHandle' = "open"
    /\ outExists' = TRUE
    /\ out' = <<>>
    /\ pairIdx' = 1
    /\ pc' = "write"
    /\ UNCHANGED <<fsVars, error, predictions_subdirs, dirIdx, files, fileIdx, inHandle,
                   lines, lineIdx, orthologues, warnings, run, runStart, history>>

\* Lines 102, 80: open(output_file, "a") creates the file if absent and
\* keeps what it holds.
OpenOutput ==
    /\ pc = "extracted"
    /\ outHandle' = "open"
    /\ outExists' = TRUE
    /\ pairIdx' = 1
    /\ pc' = "write"
    /\ UNCHANGED <<fsVars, out, error, predictions_subdirs, dirIdx, files, fileIdx,
                   inHandle, lines, lineIdx, orthologues, warnings, run, runStart,
                   history>>

\* Lines 81-82: one pair is written at the end of the file.
WritePair ==
    /\ pc = "write"
    /\ pairIdx <= Len(orthologues)
    /\ out' = out \o FormatPair(orthologues[pairIdx])
    /\ pairIdx' = pairIdx + 1
    /\ UNCHANGED <<fsVars, outExists, pc, error, predictions_subdirs, dirIdx, files,
                   fileIdx, inHandle, lines, lineIdx, orthologues, outHandle, warnings,
                   run, runStart, history>>

\* Variant of WriteFails without the with block: the handle stays open.
WriteFailsLeaks ==
    /\ pc = "write"
    /\ pairIdx <= Len(orthologues)
    /\ pc' = "raised"
    /\ error' = "OSError"
    /\ UNCHANGED <<fsVars, out, outExists, predictions_subdirs, dirIdx, files, fileIdx,
                   inHandle, lines, lineIdx, orthologues, outHandle, pairIdx, warnings,
                   run, runStart, history>>

\* Line 82: a write raises OSError; the with block releases the handle and
\* the error leaves process_orthofinder_predictions.
WriteFails ==
    /\ pc = "write"
    /\ pairIdx <= Len(orthologues)
    /\ outHandle' = "closed"
    /\ pc' = "raised"
    /\ error' = "OSError"
    /\ UNCHANGED <<fsVars, out, outExists, predictions_subdirs, dirIdx, files, fileIdx,
                   inHandle, lines, lineIdx, orthologues, pairIdx, warnings, run,
                   runStart, history>>

\* Lines 80-82, 100: all pairs written; the with block releases the handle
\* and the loop goes on to the next file.
CloseOutput ==
    /\ pc = "write"
    /\ pairIdx > Len(orthologues)
    /\ outHandle' = "closed"
    /\ fileIdx' = fileIdx + 1
    /\ pc' = "files"
    /\ UNCHANGED <<fsVars, out, outExists, error, predictions_subdirs, dirIdx, files,
                   inHandle, lines, lineIdx, orthologues, pairIdx, warnings, run,
                   runStart, history>>

(***************************************************************************)
(* The script is run again on the same inputs and output path.             *)
(***************************************************************************)
LineCount(text) == Len(SelectSeq(text, LAMBDA ch : ch = "\n"))

Ended == pc \in {"done", "raised"}

Outcome == IF pc = "done" THEN "done" ELSE error

\* Lines 105-114: a new process; only the file system is carried over.
RunAgain ==
    /\ Ended
    /\ run < MaxRuns
    /\ history' = Append(history, [end |-> Outcome,
                                   before |-> LineCount(runStart),
                                   after |-> LineCount(out)])
    /\ run' = run + 1
    /\ runStart' = out
    /\ pc' = "start"
    /\ error' = "none"
    /\ predictions_subdirs' = <<>>
    /\ dirIdx' = 1
    /\ files' = <<>>
    /\ fileIdx' = 1
    /\ lines' = <<>>
    /\ lineIdx' = 1
    /\ orthologues' = <<>>
    /\ pairIdx' = 1
    /\ warnings' = <<>>
    /\ UNCHANGED <<fsVars, out, outExists, inHandle, outHandle>>

Next ==
    \/ ScanRoot
    \/ ScanRootFails
    \/ ScanSubdir
    \/ Finish
    \/ EndSubdir
    \/ OpenInput
    \/ OpenInputFails
    \/ SkipHeader
    \/ WarnRow
    \/ EmitRow
    \/ RaiseRow
    \/ EndOfFile
    \/ OpenOutput
    \/ WritePair
    \/ CloseOutput
    \/ RunAgain

\* The script with a reliable output device.
Spec == Init /\ [][Next]_vars

FaultNext ==
    \/ Next
    \/ WriteFails

\* The script with an output device on which a write may fail.
FaultSpec == Init /\ [][FaultNext]_vars

(***************************************************************************)
(* What the claims speak of, stated without the loops of the script.       *)
(***************************************************************************)
IsPrefix(p, q) == Len(p) <= Len(q) /\ SubSeq(q, 1, Len(p)) = p

\* The marker occurs somewhere in the line.
HasMarker(line) ==
    \E i \in 1..Len(line) :
        /\ i + Len(Marker) - 1 <= Len(line)
        /\ \A j \in 1..Len(Marker) : line[i + j - 1] = Marker[j]

\* The tab-separated fields of the line without its newline.
TabFields(line) == Split(SelectSeq(line, LAMBDA ch : ch # "\n"), "\t")

\* The comma-separated tokens of a field, spaces removed.
Tokens(field) ==
    LET raw == Split(field, ",")
    IN  [i \in 1..Len(raw) |-> SelectSeq(raw[i], LAMBDA ch : ch # " ")]

Segments(token) == Split(token, "|")

AllTokens(line) == Tokens(TabFields(line)[2]) \o Tokens(TabFields(line)[3])

WellFormedRow(line) ==
    /\ ~HasMarker(line)
    /\ Len(TabFields(line)) >= 3
    /\ \A i \in 1..Len(AllTokens(line)) : Len(Segments(AllTokens(line)[i])) >= 2

BadTokenRow(line) ==
    /\ ~HasMarker(line)
    /\ Len(TabFields(line)) >= 3
    /\ \E i \in 1..Len(AllTokens(line)) : Len(Segments(AllTokens(line)[i])) < 2

\* The R*T pairs of a well-formed row, reference-major and target-minor.
ExpectedPairs(line) ==
    LET refs == Tokens(TabFields(line)[2])
        tgts == Tokens(TabFields(line)[3])
    IN  [p \in 1..(Len(refs) * Len(tgts)) |->
            <<Segments(refs[((p - 1) \div Len(tgts)) + 1])[2],
              Segments(tgts[((p - 1) % Len(tgts)) + 1])[2]>>]

\* The pairs of a file none of whose rows has a bad token.
ExpectedFilePairs(ls) ==
    Concat([i \in 1..Len(ls) |->
               IF WellFormedRow(ls[i]) THEN ExpectedPairs(ls[i]) ELSE <<>>])

ExpectedText(ps) ==
    Concat([i \in 1..Len(ps) |-> ps[i][1] \o <<"\t">> \o ps[i][2] \o <<"\n">>])

\* The lines one file adds to the output.
Block(f) ==
    IF content[f].openable
    THEN ExpectedText(ExpectedFilePairs(ReadLines(content[f].data)))
    ELSE <<>>

Blocks(fs) == Concat([i \in 1..Len(fs) |-> Block(fs[i])])

AtLine == pc = "read" /\ lineIdx <= Len(lines)

AtFile == pc = "files" /\ fileIdx <= Len(files)

InFileLoop ==
    \/ pc \in {"files", "read", "extracted", "write"}
    \/ pc = "raised" /\ error \in {"IndexError", "OSError"}

\* The files whose extraction and writing are over, in processing order.
ProcessedFiles ==
    Concat([i \in 1..(dirIdx - 1) |-> TsvFilesOf(predictions_subdirs[i], scanOrder)])
        \o (IF InFileLoop THEN SubSeq(files, 1, fileIdx - 1) ELSE <<>>)

\* A regular file named *.tsv directly inside an immediate subdirectory of the root.
Eligible(n) ==
    /\ Tree[n].kind = "file"
    /\ EndsWith(Tree[n].name, TsvExt)
    /\ Tree[n].parent \in Nodes
    /\ Tree[Tree[n].parent].kind = "dir"
    /\ Tree[Tree[n].parent].parent = Root

\* The eligible files in the order the walk meets them.
EligibleOrder ==
    LET top == ScanDir(Root, scanOrder)
    IN  SelectSeq(Concat([i \in 1..Len(top) |-> ScanDir(top[i], scanOrder)]), Eligible)

(***************************************************************************)
(* Claims.                                                                 *)
(***************************************************************************)
\* C1: a line without the marker, with at least 3 fields, whose R reference
\* tokens and T target tokens all have two or more segments, adds exactly
\* the R*T pairs (second segment of reference i, second segment of target j)
\* to the list, all targets of reference 1 first, then those of reference 2,
\* and so on; reading goes on with the next line.
C1_CrossProduct ==
    [][(AtLine /\ WellFormedRow(lines[lineIdx]))
         => /\ orthologues' = orthologues \o ExpectedPairs(lines[lineIdx])
            /\ Len(orthologues') = Len(orthologues)
                  + Len(Tokens(TabFields(lines[lineIdx])[2]))
                    * Len(Tokens(TabFields(lines[lineIdx])[3]))
            /\ lineIdx' = lineIdx + 1
            /\ pc' = "read"]_vars

\* A 2x2 row has just been read and its four pairs are at the end of the list.
C1_Witness ==
    /\ pc = "read"
    /\ lineIdx > 1
    /\ WellFormedRow(lines[lineIdx - 1])
    /\ Len(Tokens(TabFields(lines[lineIdx - 1])[2])) = 2
    /\ Len(Tokens(TabFields(lines[lineIdx - 1])[3])) = 2
    /\ orthologues = <<<<<<"P", "3">>, <<"Q", "2">>>>, <<<<"P", "3">>, <<"Q", "3">>>>,
                       <<<<"P", "4">>, <<"Q", "2">>>>, <<<<"P", "4">>, <<"Q", "3">>>>>>

\* C2 as stated: every row with fewer than 3 tab-separated fields adds no
\* pair and records a warning, and reading goes on with the next row.
C2_AsStated ==
    [][(AtLine /\ Len(TabFields(lines[lineIdx])) < 3)
         => /\ orthologues' = orthologues
            /\ Len(warnings') = Len(warnings) + 1
            /\ lineIdx' = lineIdx + 1
            /\ pc' = "read"]_vars

\* C2 amended: every row without the marker and with fewer than 3 fields adds
\* no pair and records a warning naming the file and the line; reading goes
\* on with the next row, and the list returned for a file is the one its
\* well-formed rows alone give.
C2_MalformedRow ==
    /\ [][(AtLine /\ ~HasMarker(lines[lineIdx]) /\ Len(TabFields(lines[lineIdx])) < 3)
            => /\ orthologues' = orthologues
               /\ warnings' = Append(warnings, [kind |-> "row", file |-> files[fileIdx],
                                                line |-> lines[lineIdx]])
               /\ lineIdx' = lineIdx + 1
               /\ inHandle' = "open"
               /\ pc' = "read"]_vars
    /\ []((pc = "extracted" /\ content[files[fileIdx]].openable)
            => orthologues = ExpectedFilePairs(lines))

\* A file whose first row was short has been read to its end, and the rows
\* after the short one gave their pairs.
C2_Witness ==
    /\ pc = "extracted"
    /\ content[files[fileIdx]].openable
    /\ Len(lines) > 1
    /\ ~HasMarker(lines[1])
    /\ Len(TabFields(lines[1])) < 3
    /\ Len(warnings) > 0
    /\ warnings[Len(warnings)].kind = "row"
    /\ orthologues # <<>>

\* C4: a line holding the marker anywhere adds no pair, whatever else it
\* holds, and reading goes on with the next line.
C4_HeaderSkipped ==
    [][(AtLine /\ HasMarker(lines[lineIdx]))
         => /\ orthologues' = orthologues
            /\ warnings' = warnings
            /\ lineIdx' = lineIdx + 1
            /\ inHandle' = "open"
            /\ pc' = "read"]_vars

\* A row with the marker inside its target field, otherwise well formed, has
\* just been passed over.
C4_Witness ==
    /\ pc = "read"
    /\ lineIdx > 1
    /\ lines[lineIdx - 1] = MarkerDataRow \o NL
    /\ orthologues = <<>>

\* C3: a file that cannot be opened gives no pair and records a warning, the
\* run goes on with its (empty) write and the following files, and a run that
\* met such a file and came to its end has written the pairs of every other
\* discovered file.
C3_UnopenableFile ==
    /\ [][(AtFile /\ ~content[files[fileIdx]].openable)
            => /\ orthologues' = <<>>
               /\ warnings' = Append(warnings, [kind |-> "open", file |-> files[fileIdx],
                                                line |-> <<>>])
               /\ out' = out
               /\ error' = "none"
               /\ pc' = "extracted"]_vars
    /\ []((pc = "done" /\ \E i \in 1..Len(EligibleOrder) : ~content[EligibleOrder[i]].openable)
            => out = runStart \o Blocks(SelectSeq(EligibleOrder,
                                                  LAMBDA f : content[f].openable)))

\* The run is over; the middle file could not be opened, a warning names it,
\* and the files before and after it, in two subdirectories, gave their pairs.
C3_Witness ==
    /\ pc = "done"
    /\ ~content["b"].openable
    /\ \E i \in 1..Len(warnings) : warnings[i].kind = "open" /\ warnings[i].file = "b"
    /\ content["a"].openable /\ Block("a") # <<>>
    /\ content["c"].openable /\ Block("c") # <<>>
    /\ Len(out) = Len(runStart) + Len(Block("a")) + Len(Block("c"))

\* C5: no step shortens or rewrites the output file or removes it, and when
\* the script has been run k times on the same inputs and output path the
\* file has gained k times the lines the first run added.
C5_AppendOnly ==
    /\ [][IsPrefix(out, out') /\ (outExists => outExists')]_vars
    /\ []((Ended /\ run >= 2)
            => LineCount(out) - history[1].before
                 = run * (history[1].after - history[1].before))

\* The second run is over, the file existed with one line before the first
\* run, and the first run added lines to it.
C5_Witness ==
    /\ pc = "done"
    /\ run = 2
    /\ history[1].before = 1
    /\ history[1].after > 2
    /\ IsPrefix(OldLine, out)
    /\ LineCount(out) = 1 + 2 * (history[1].after - 1)

\* C6: one file at a time: the input and the output are never open together,
\* and at every moment the output holds, after what the run found in it, the
\* whole blocks of the files already processed, in processing order, followed
\* by the pairs of the current file written so far.
C6_OneFileAtATime ==
    /\ ~(inHandle = "open" /\ outHandle = "open")
    /\ out = runStart \o Blocks(ProcessedFiles)
               \o (IF pc = "write"
                   THEN ExpectedText(SubSeq(orthologues, 1, pairIdx - 1))
                   ELSE <<>>)
    /\ (pc = "write" /\ content[files[fileIdx]].openable)
          => IsPrefix(ExpectedText(SubSeq(orthologues, 1, pairIdx - 1)),
                      Block(files[fileIdx]))
    /\ pc = "done"
          => ProcessedFiles = Concat([i \in 1..Len(predictions_subdirs) |->
                                        TsvFilesOf(predictions_subdirs[i], scanOrder)])

\* The third file is being written: two whole blocks are in the output and
\* the second pair of the third block comes next.
C6_Witness ==
    /\ pc = "write"
    /\ pairIdx = 2
    /\ Len(orthologues) >= 2
    /\ Len(ProcessedFiles) = 2
    /\ Block(ProcessedFiles[1]) # <<>>
    /\ Block(ProcessedFiles[2]) # <<>>
    /\ Block(ProcessedFiles[1]) # Block(ProcessedFiles[2])

\* C7: the files the script extracts from are exactly the regular files
\* named *.tsv directly inside an immediate subdirectory of the root: every
\* file it handles is one of them, and a run that came to its end has added
\* the blocks of all of them and nothing else.
C7_EligibleFiles ==
    /\ \A i \in 1..Len(files) : Eligible(files[i])
    /\ \A i \in 1..Len(predictions_subdirs) :
          Tree[predictions_subdirs[i]].kind = "dir" /\ Tree[predictions_subdirs[i]].parent = Root
    /\ pc = "done" => out = runStart \o Blocks(EligibleOrder)

\* The run is over and the three eligible files, and only they, gave pairs.
C7_Witness ==
    /\ pc = "done"
    /\ \A f \in {"a", "b", "c"} : content[f].openable /\ Block(f) # <<>>
    /\ Len(out) = Len(runStart) + Len(Block("a")) + Len(Block("b")) + Len(Block("c"))

\* C8: the output handle is held exactly while write_orthologous_pairs runs:
\* it is open during the writes of one invocation and released when the
\* invocation ends, also when a write failed.
C8_HandleReleased ==
    /\ outHandle = "open" <=> pc = "write"
    /\ (pc = "raised" /\ error = "OSError") => outHandle = "closed"

\* A write failed after the first pair of a list of two or more was written.
C8_Witness ==
    /\ pc = "raised"
    /\ error = "OSError"
    /\ pairIdx = 2
    /\ Len(orthologues) >= 2
    /\ outHandle = "closed"
    /\ Len(out) > Len(runStart)

\* C9: with a root that is missing or no directory the run ends with the
\* error of the directory scan, and no step reads an input file, issues a
\* warning, or creates or changes the output file.
C9_InvalidRoot ==
    /\ []((rootKind # "dir" /\ pc # "start")
            => /\ pc = "raised"
               /\ error = (IF rootKind = "missing" THEN "FileNotFoundError"
                           ELSE "NotADirectoryError"))
    /\ [][rootKind # "dir"
            => /\ out' = out
               /\ outExists' = outExists
               /\ inHandle' = "closed"
               /\ outHandle' = "closed"
               /\ lines' = <<>>
               /\ warnings' = <<>>]_vars

\* The root is missing, the run has ended with the error, and the output file
\* still does not exist.
C9_Witness ==
    /\ rootKind = "missing"
    /\ pc = "raised"
    /\ error = "FileNotFoundError"
    /\ ~outExists
    /\ out = <<>>

====
